---------------------------- MODULE Spec2Model ----------------------------
(***************************************************************************)
(* A model of kusho-cli's recorder (src/recorder.js) and of the record     *)
(* command that drives it (src/index.js).                                  *)
(*                                                                         *)
(* Text is modelled as a sequence of lexemes: a string is the              *)
(* concatenation of its lexemes.  Whitespace is the one-character lexeme   *)
(* " ", a line break the lexeme "\n"; every other lexeme is a word or a    *)
(* punctuation mark that holds neither of the two.  A substring the code   *)
(* looks for ('test(', 'import ', '.js') is a sequence of lexemes and is   *)
(* searched as a contiguous run.                                           *)
(***************************************************************************)
EXTENDS Integers, Sequences, FiniteSets, TLC

VARIABLES
    codegenProcess,         \* this.codegenProcess: "none" or "handle"
    proc,                   \* the codegen child process as the OS and node see it
    watcher,                \* this.watcher: "none" or "open"
    pollArmed,              \* a setTimeout(checkFile, 500) is pending
    pending,                \* change notifications queued on the open watcher
    currentCode,            \* this.currentCode
    enableWaitEnhancement,  \* this.enableWaitEnhancement
    outputOpt,              \* options.output of the record command: <<>> or <<name>>
    dir,                    \* the recordings directory: a set of [name, content]
    phase,                  \* position in the post-recording pipeline
    editor,                 \* the editor subprocess chain of tryTerminalEditor
    ext,                    \* one run of extendScriptWithAPI
    credFile,               \* the credential file: << >> or << its text >>
    sigintHandler,          \* the record command has installed its SIGINT handler
    hist,                   \* history of what the session did (observation only)
    wrapRun,                \* one application of wrapInTestFunction to an input
    saveRun                 \* one application of saveCodeToUniqueFile to an input

vars == << codegenProcess, proc, watcher, pollArmed, pending, currentCode,
           enableWaitEnhancement, outputOpt, dir, phase, editor, ext, credFile,
           sigintHandler, hist, wrapRun, saveRun >>

sessionVars == << codegenProcess, proc, watcher, pollArmed, pending, currentCode,
                  enableWaitEnhancement, outputOpt, dir, phase, editor, ext,
                  credFile, sigintHandler, hist >>

-----------------------------------------------------------------------------
(* Bounds of the model.                                                    *)

MaxLines == 3       \* lines of an input of wrapInTestFunction
MaxWrites == 3      \* writes of the artifact file by the environment
MaxExisting == 2    \* numbered copies that may pre-exist in the recordings directory
MaxStops == 2       \* calls of stopRecording

-----------------------------------------------------------------------------
(* String primitives of JavaScript, on lexeme sequences.                   *)

RECURSIVE Join(_, _)
\* Array.prototype.join(sep)
Join(ss, sep) ==
    IF ss = << >> THEN << >>
    ELSE IF Len(ss) = 1 THEN Head(ss)
    ELSE Head(ss) \o sep \o Join(Tail(ss), sep)

RECURSIVE SplitFrom(_, _, _)
SplitFrom(s, cur, sep) ==
    IF s = << >> THEN << cur >>
    ELSE IF Head(s) = sep THEN << cur >> \o SplitFrom(Tail(s), << >>, sep)
    ELSE SplitFrom(Tail(s), Append(cur, Head(s)), sep)

\* String.prototype.split(sep) for a one-lexeme separator; "".split gives [""]
Split(s, sep) == SplitFrom(s, << >>, sep)

IsSpace(ch) == ch = " " \/ ch = "\n"

RECURSIVE TrimStart(_)
TrimStart(s) ==
    IF s # << >> /\ IsSpace(Head(s)) THEN TrimStart(Tail(s)) ELSE s

RECURSIVE TrimEnd(_)
TrimEnd(s) ==
    IF s # << >> /\ IsSpace(s[Len(s)]) THEN TrimEnd(SubSeq(s, 1, Len(s) - 1)) ELSE s

\* String.prototype.trim
Trim(s) == TrimEnd(TrimStart(s))

\* String.prototype.startsWith
StartsWith(s, p) == Len(s) >= Len(p) /\ SubSeq(s, 1, Len(p)) = p

\* String.prototype.endsWith
EndsWith(s, p) == Len(s) >= Len(p) /\ SubSeq(s, Len(s) - Len(p) + 1, Len(s)) = p

\* the first index at which p occurs in s, 0 when it does not (indexOf + 1)
IndexOf(s, p) ==
    LET hits == { i \in 1..(Len(s) - Len(p) + 1) : SubSeq(s, i, i + Len(p) - 1) = p }
    IN  IF hits = {} THEN 0 ELSE CHOOSE i \in hits : \A j \in hits : i <= j

\* String.prototype.includes
Includes(s, p) == IndexOf(s, p) # 0

\* String.prototype.replace(p, '') with a string pattern: the first occurrence only
ReplaceFirst(s, p) ==
    LET i == IndexOf(s, p)
    IN  IF i = 0 THEN s
        ELSE SubSeq(s, 1, i - 1) \o SubSeq(s, i + Len(p), Len(s))

NL == << "\n" >>

-----------------------------------------------------------------------------
(* wrapInTestFunction (recorder.js 423-459).                               *)

MarkerTest == << "test", "(" >>
MarkerDescribe == << "describe", "(" >>

\* the marker check of line 425
HasTestMarker(code) == Includes(code, MarkerTest) \/ Includes(code, MarkerDescribe)

\* line 437: an import or declaration line
IsImportLine(line) ==
    \/ StartsWith(line, << "import", " " >>)
    \/ StartsWith(line, << "const", " " >>)
    \/ StartsWith(line, << "require", "(" >>)

\* line 440: a line that establishes test, browser or context
IsSetupLine(line) ==
    \/ Includes(line, << "test", " ", "=" >>)
    \/ Includes(line, << "browser", " ", "=" >>)
    \/ Includes(line, << "context", " ", "=" >>)

RECURSIVE ScanLines(_, _, _)
\* the for loop of lines 435-446, from index i (1-based) with the accumulators
\* acc = [imports, setup, testStartIndex]
ScanLines(lines, i, acc) ==
    IF i > Len(lines) THEN acc
    ELSE LET line == Trim(lines[i])
         IN  IF IsImportLine(line)
               THEN ScanLines(lines, i + 1,
                      [acc EXCEPT !.imports = @ \o lines[i] \o NL,
                                  !.testStartIndex = i])
             ELSE IF IsSetupLine(line)
               THEN ScanLines(lines, i + 1,
                      [acc EXCEPT !.setup = @ \o lines[i] \o NL,
                                  !.testStartIndex = i])
             ELSE IF Len(line) > 0 THEN acc
             ELSE ScanLines(lines, i + 1, acc)

\* the state of the scan when the loop ends; testStartIndex counts lines consumed
ScanHeader(lines) ==
    ScanLines(lines, 1, [imports |-> << >>, setup |-> << >>, testStartIndex |-> 0])

\* line 455: line => line.trim() ? '  ' + line : line
IndentLine(line) == IF Trim(line) # << >> THEN << " ", " " >> \o line ELSE line

\* line 452 of the template
RequireLine ==
    << "const", " ", "{", " ", "test", ",", " ", "expect", " ", "}", " ", "=", " ",
       "require", "(", "'@playwright/test'", ")", ";" >>

\* line 454 of the template
TestHeaderMut ==
    << "it", "(", "'KushoAI Generated Test'", ",", " ", "async", " ", "(", "{", " ",
       "page", " ", "}", ")", " ", "=>", " ", "{" >>

TestHeader ==
    << "test", "(", "'KushoAI Generated Test'", ",", " ", "async", " ", "(", "{", " ",
       "page", " ", "}", ")", " ", "=>", " ", "{" >>

\* line 456 of the template
TestFooter == << "}", ")", ";" >>

\* line 448 and line 455: the body of the synthesized test
WrapBody(lines, testStartIndex) ==
    LET testCode == Join(SubSeq(lines, testStartIndex + 1, Len(lines)), NL)
        bodyLines == Split(testCode, "\n")
    IN  Join([ k \in 1..Len(bodyLines) |-> IndentLine(bodyLines[k]) ], NL)

wrapInTestFunction(code) ==
    IF HasTestMarker(code) THEN code
    ELSE LET lines == Split(code, "\n")
             scan == ScanHeader(lines)
         IN  scan.imports \o NL
               \o RequireLine \o NL
               \o NL
               \o TestHeader \o NL
               \o WrapBody(lines, scan.testStartIndex) \o NL
               \o TestFooter

-----------------------------------------------------------------------------
(* The analyzer collaborator (./wait-enhancer, required at recorder.js 8). *)
(* Its source is not part of the repository's files at hand; it is taken   *)
(* from its contract: enhance(code) -> code adds synchronization           *)
(* statements and is safe to re-run on enhanced code.                      *)

WaitStatement == << "await", " ", "page", ".", "waitForLoadState", "(", ")", ";" >>

enhanceCode(code) ==
    IF Includes(code, << "waitForLoadState" >>) THEN code
    ELSE code \o NL \o WaitStatement

\* handleCodeUpdate, lines 116-129: the code that is printed, buffered and observed
TransformCode(code, enhance) ==
    wrapInTestFunction(IF enhance THEN enhanceCode(code) ELSE code)

-----------------------------------------------------------------------------
(* The recordings directory (this.recordingDir): a set of files, each a    *)
(* record [name, content]; no two files share a name.  path.join of the    *)
(* directory and a plain name is the name.                                 *)

\* fs.existsSync
ExistsSync(d, name) == \E f \in d : f.name = name

\* fs.readFileSync of an existing file
ReadFileSync(d, name) == (CHOOSE f \in d : f.name = name).content

\* fs.writeFileSync
WriteFileSync(d, name, content) ==
    { f \in d : f.name # name } \cup { [name |-> name, content |-> content] }

\* fs.unlinkSync
UnlinkSync(d, name) == { f \in d : f.name # name }

\* the content of a file as an option: << >> when absent, << content >> otherwise
FileOpt(d, name) == IF ExistsSync(d, name) THEN << ReadFileSync(d, name) >> ELSE << >>

JsExt == << ".", "j", "s" >>

\* this.outputFile (line 12), relative to the recordings directory
OutputFile == << "generated-test" >> \o JsExt

Digit == << "0", "1", "2", "3", "4", "5", "6", "7", "8", "9" >>

RECURSIVE NumStr(_)
\* the decimal text of a counter, as a template literal prints it
NumStr(n) ==
    IF n < 10 THEN << Digit[n + 1] >>
    ELSE NumStr(n \div 10) \o << Digit[(n % 10) + 1] >>

\* line 223: filename.replace('.js', '')
BaseName(filename) == ReplaceFirst(filename, JsExt)

RECURSIVE UniqueName(_, _, _, _)
\* the while loop of lines 228-232
UniqueName(d, baseName, finalFilename, counter) ==
    IF ExistsSync(d, finalFilename)
      THEN UniqueName(d, baseName,
                      baseName \o << "-" >> \o NumStr(counter) \o JsExt, counter + 1)
      ELSE finalFilename

\* saveCodeToUniqueFile (lines 221-236): the path it writes and returns
UniquePath(d, filename) == UniqueName(d, BaseName(filename), filename, 1)

\* lines 200-209: the file name made of the answer to the filename prompt
DefaultName == << "kusho-test-", "2026-11-05T20-22-00-000Z" >>

PromptedName(answer) ==
    LET named == IF answer = << >> \/ Trim(answer) = << >> THEN DefaultName ELSE answer
    IN  IF EndsWith(named, JsExt) THEN named ELSE named \o JsExt

-----------------------------------------------------------------------------
(* JSON, as far as the recorder uses it: objects whose members are strings. *)
(* The text is a lexeme sequence with the lexemes { } : , and " of its own; *)
(* a string literal is what stands between two " lexemes (escapes are not   *)
(* modelled: no value holds a quote).  A JavaScript object is the sequence  *)
(* of its members [key, value] in insertion order.                          *)

Quote == "\""

RECURSIVE SkipWs(_, _)
\* the first index from i on that holds no whitespace
SkipWs(s, i) == IF i <= Len(s) /\ IsSpace(s[i]) THEN SkipWs(s, i + 1) ELSE i

ParseFail == [ok |-> FALSE, value |-> << >>, next |-> 0]

\* a string literal that starts at i
ParseString(s, i) ==
    LET closing == { j \in (i + 1)..Len(s) : s[j] = Quote }
    IN  IF i > Len(s) \/ s[i] # Quote \/ closing = {}
          THEN ParseFail
          ELSE LET j == CHOOSE j \in closing : \A k \in closing : j <= k
               IN  [ok |-> TRUE, value |-> SubSeq(s, i + 1, j - 1), next |-> j + 1]

RECURSIVE ParseMembers(_, _, _)
\* the members of an object from i on, up to and including its closing brace
ParseMembers(s, i, acc) ==
    LET k == ParseString(s, SkipWs(s, i))
        c == SkipWs(s, k.next)
        v == ParseString(s, SkipWs(s, c + 1))
        e == SkipWs(s, v.next)
    IN  IF ~k.ok \/ c > Len(s) \/ s[c] # ":" \/ ~v.ok \/ e > Len(s)
          THEN ParseFail
          ELSE LET acc2 == Append(acc, [key |-> k.value, value |-> v.value])
               IN  IF s[e] = "," THEN ParseMembers(s, e + 1, acc2)
                   ELSE IF s[e] = "}" THEN [ok |-> TRUE, value |-> acc2, next |-> e + 1]
                   ELSE ParseFail

\* JSON.parse: << >> when it throws, << object >> otherwise
JsonParse(s) ==
    LET i == SkipWs(s, 1)
        j == SkipWs(s, i + 1)
        obj == IF j <= Len(s) /\ s[j] = "}"
                 THEN [ok |-> TRUE, value |-> << >>, next |-> j + 1]
                 ELSE ParseMembers(s, j, << >>)
    IN  IF i > Len(s) \/ s[i] # "{" THEN << >>
        ELSE IF obj.ok /\ SkipWs(s, obj.next) > Len(s) THEN << obj.value >>
        ELSE << >>

\* JSON.stringify(obj, null, 2)
JsonStringify(obj) ==
    IF obj = << >> THEN << "{", "}" >>
    ELSE << "{", "\n" >>
         \o Join([i \in 1..Len(obj) |->
                    << " ", " ", Quote >> \o obj[i].key \o << Quote, ":", " ", Quote >>
                    \o obj[i].value \o << Quote >>],
                 << ",", "\n" >>)
         \o << "\n", "}" >>

\* obj.name is not undefined
HasField(obj, name) == \E i \in 1..Len(obj) : obj[i].key = << name >>

\* obj.name, where undefined and the empty string are both << >>; of two
\* members with one key the later one counts
Field(obj, name) ==
    LET hits == { i \in 1..Len(obj) : obj[i].key = << name >> }
    IN  IF hits = {} THEN << >>
        ELSE obj[CHOOSE i \in hits : \A j \in hits : j <= i].value

\* the object literal { email, token } of line 301
Credentials(email, token) ==
    << [key |-> << "email" >>, value |-> email],
       [key |-> << "token" >>, value |-> token] >>

-----------------------------------------------------------------------------
(* The recording session of the record command (index.js 22-58).           *)

\* what the codegen tool writes to the artifact file
RawPlain == << "await", " ", "page", ".", "click", "(", "'#a'", ")", ";" >>
RawTest == << "test", "(", "'t'", ",", " ", "fn", ")", ";" >>
RawCodes == { << >>, RawPlain, RawTest }

\* options.output, when given
OutputName == << "out" >> \o JsExt

\* a file of an earlier session
OldContent == << "old" >>

InitialDirs ==
    { {},
      { [name |-> OutputFile, content |-> OldContent] },
      { [name |-> << "x" >> \o JsExt, content |-> OldContent] } }

\* The credential file (line 20) as an option of its text: absent, the text
\* promptForCredentials once wrote, a text cut short, an object without fields.
StoredCredentials == Credentials(<< "a@b.io" >>, << "t0" >>)

CredFiles ==
    { << >>,
      << JsonStringify(StoredCredentials) >>,
      << << "{", "\n", " ", " ", Quote, "email", Quote, ":" >> >>,
      << << "{", "}" >> >> }

HistInit ==
    [ writes |-> 0,             \* writes of the artifact file so far
      reads |-> 0,              \* successful reads by the watcher callback
      failedReads |-> 0,        \* reads by the watcher callback that threw
      recovered |-> FALSE,      \* a change was processed after a read had failed
      lastRead |-> << >>,       \* the content the last successful read returned
      transforms |-> 0,         \* runs of handleCodeUpdate
      observerCalls |-> 0,      \* calls of this.onCodeUpdate
      lastObserved |-> << >>,   \* the argument of the last call of this.onCodeUpdate
      analyzerCalls |-> 0,      \* calls of enhanceCode and analyzeAndSuggestWaits
      attaches |-> 0,           \* watchers attached by startFileWatcher
      errorReported |-> FALSE,  \* the 'error' handler of the codegen process ran
      closeHandled |-> FALSE,   \* the 'close' handler of the codegen process ran
      stops |-> 0,              \* calls of stopRecording
      stopResult |-> << >>,     \* what the last stopRecording returned
      stopWrites |-> 0,         \* the writes so far when stopRecording last ran
      kills |-> 0,              \* calls of codegenProcess.kill()
      watcherCloses |-> 0,      \* calls of watcher.close()
      prompts |-> 0,            \* filename prompts opened
      saved |-> << >>,          \* the path saveCodeToUniqueFile returned
      extStarts |-> 0,          \* runs of extendScriptWithAPI started
      sigints |-> 0,            \* runs of the SIGINT handler
      exitCode |-> << >> ]      \* the code process.exit was called with

EditorInit == [ filePath |-> << >>, index |-> 0, state |-> "none", tried |-> << >>,
                errors |-> 0, failedCloses |-> 0, exitCode |-> << >> ]

ExtInit ==
    [ pc |-> "idle",
      path |-> << >>,               \* filePath
      pre |-> << >>,                \* the file's content when the run started
      credAtStart |-> << >>,        \* the credential file when the run started
      credReadFailed |-> FALSE,     \* reading the credential file threw
      creds |-> << >>,              \* what getCredentials returned
      credPrompts |-> 0,            \* runs of promptForCredentials
      credWarned |-> FALSE,         \* 'Could not save credentials' was printed
      handle |-> FALSE,             \* loadingInterval is set
      timer |-> FALSE,              \* the indicator's interval is running
      timerStarts |-> 0,            \* calls of showLoadingIndicator
      frame |-> 0,                  \* frameIndex of the running indicator
      messages |-> 0,               \* result messages printed
      printedWithTimer |-> FALSE,   \* a result message was printed over a running indicator
      event |-> "none",
      status |-> 0,                 \* res.statusCode
      body |-> << >>,               \* the response body, when there was one
      error |-> << >>,              \* error.message of the catch
      result |-> "none" ]

WrapIdle == [ pc |-> "idle", in |-> << >>, out |-> << >>, out2 |-> << >> ]
SaveIdle == [ pc |-> "idle", name |-> << >>, before |-> {}, ret |-> << >> ]

\* the constructor, lines 11-21, and the options of the record command.  The
\* session never reads the credential file: it is taken as absent here, and the
\* pipeline starts over any credential file.
SessionInit ==
    /\ codegenProcess = "none"
    /\ proc = "unspawned"
    /\ watcher = "none"
    /\ pollArmed = FALSE
    /\ pending = 0
    /\ currentCode = << >>
    /\ enableWaitEnhancement \in BOOLEAN
    /\ outputOpt \in { << >>, << OutputName >> }
    /\ dir \in InitialDirs
    /\ phase = "idle"
    /\ editor = EditorInit
    /\ ext = ExtInit
    /\ credFile = << >>
    /\ sigintHandler = FALSE
    /\ hist = HistInit

Init ==
    /\ SessionInit
    /\ wrapRun = WrapIdle
    /\ saveRun = SaveIdle

\* the node process is running: process.exit has not been called
Alive == phase # "exited"

\* watchForChanges and startFileWatcher: one run of
\* checkFile, lines 84-90
CheckFileMut ==
    IF ExistsSync(dir', OutputFile)
      THEN /\ watcher' = "open"
           /\ pollArmed' = TRUE
           /\ hist' = [hist EXCEPT !.attaches = @ + 1]
      ELSE /\ watcher' = watcher
           /\ pollArmed' = TRUE
           /\ hist' = hist

CheckFile ==
    IF ExistsSync(dir', OutputFile)
      THEN /\ watcher' = "open"
           /\ pollArmed' = FALSE
           /\ hist' = [hist EXCEPT !.attaches = @ + 1]
      ELSE /\ watcher' = watcher
           /\ pollArmed' = TRUE
           /\ hist' = hist

\* startRecording, lines 23-80.  spawn() returns a handle also when the launch
\* fails: the failure arrives later as an 'error' event.
StartRecording ==
    /\ phase = "idle"
    /\ phase' = "recording"
    /\ dir' = IF ExistsSync(dir, OutputFile) THEN UnlinkSync(dir, OutputFile) ELSE dir
    /\ codegenProcess' = "handle"
    /\ \E launched \in BOOLEAN :
          proc' = IF launched THEN "running" ELSE "launchFailed"
    /\ CheckFile
    /\ UNCHANGED << sigintHandler, pending, currentCode, enableWaitEnhancement,
                    outputOpt, editor, ext, credFile, wrapRun, saveRun >>

\* the timer of line 88 fires: checkFile runs again
PollTimer ==
    /\ Alive
    /\ pollArmed
    /\ dir' = dir
    /\ CheckFile
    /\ UNCHANGED << sigintHandler, codegenProcess, proc, pending, currentCode,
                    enableWaitEnhancement, outputOpt, phase, editor, ext, credFile,
                    wrapRun, saveRun >>

\* the timer of lines 73-79 fires: startRecording's promise resolves and the
\* record command installs its SIGINT handler (index.js 38-42).  Until then an
\* interrupt ends the process by the default disposition, with no handler run.
SettleTimer ==
    /\ Alive
    /\ phase # "idle"
    /\ ~sigintHandler
    /\ sigintHandler' = TRUE
    /\ UNCHANGED << codegenProcess, proc, watcher, pollArmed, pending, currentCode,
                    enableWaitEnhancement, outputOpt, dir, phase, editor, ext,
                    credFile, hist, wrapRun, saveRun >>

\* The artifact file is written: by the codegen tool, which with shell: true is
\* a grandchild that the handle's exit does not end, or by anything else that
\* shares the file system.  An open watcher queues one notification per write.
ArtifactWrite ==
    /\ Alive
    /\ phase # "idle"
    /\ hist.writes < MaxWrites
    /\ \E c \in RawCodes : dir' = WriteFileSync(dir, OutputFile, c)
    /\ pending' = IF watcher = "open" THEN pending + 1 ELSE pending
    /\ hist' = [hist EXCEPT !.writes = @ + 1]
    /\ UNCHANGED << sigintHandler, codegenProcess, proc, watcher, pollArmed, currentCode,
                    enableWaitEnhancement, outputOpt, phase, editor, ext, credFile,
                    wrapRun, saveRun >>

\* lines 117-122: the calls of the analyzer that one run of handleCodeUpdate
\* makes: enhanceCode and then analyzeAndSuggestWaits, the second one only when
\* the first one returned
AnalyzerCallsMut(enabled, analyzerOk) == IF analyzerOk THEN 2 ELSE 1

AnalyzerCalls(enabled, analyzerOk) ==
    IF ~enabled THEN 0 ELSE IF analyzerOk THEN 2 ELSE 1

\* handleCodeUpdate, lines 114-142, on code read by the watcher callback, with
\* the history h of the callback so far.  The analyzer may throw (lines 118,
\* 121) and so may the observer, which is the record command's callback
\* (index.js 31-36): both exceptions end in the catch of line 107.
handleCodeUpdate(code, h, analyzerOk, observerOk) ==
    LET h2 == [h EXCEPT !.transforms = @ + 1,
                        !.analyzerCalls =
                            @ + AnalyzerCalls(enableWaitEnhancement, analyzerOk)]
        finalCode == TransformCode(code, enableWaitEnhancement)
    IN  IF enableWaitEnhancement /\ ~analyzerOk
          THEN /\ currentCode' = code
               /\ dir' = dir
               /\ hist' = h2
          ELSE /\ currentCode' = finalCode
               /\ hist' = [h2 EXCEPT !.observerCalls = @ + 1,
                                     !.lastObserved = << finalCode >>,
                                     !.recovered = @ \/ h.failedReads > 0]
               /\ dir' = IF outputOpt # << >> /\ observerOk
                           THEN WriteFileSync(dir, outputOpt[1], finalCode)
                           ELSE dir

\* a read that throws lands in the catch of lines 107-109
CatchReadFailureMut ==
    /\ currentCode' = << >>
    /\ dir' = dir
    /\ hist' = [hist EXCEPT !.failedReads = @ + 1]

CatchReadFailure ==
    /\ UNCHANGED << currentCode, dir >>
    /\ hist' = [hist EXCEPT !.failedReads = @ + 1]

\* the callback of fs.watch, lines 97-111
WatcherCallback(eventType, readOk, analyzerOk, observerOk) ==
    IF eventType # "change"
      THEN UNCHANGED << currentCode, dir, hist >>
    ELSE IF ~readOk \/ ~ExistsSync(dir, OutputFile)
      THEN CatchReadFailure
      ELSE LET newCode == ReadFileSync(dir, OutputFile)
               h1 == [hist EXCEPT !.reads = @ + 1, !.lastRead = << newCode >>]
           IN  IF newCode # currentCode
                 THEN handleCodeUpdate(newCode, h1, analyzerOk, observerOk)
                 ELSE /\ hist' = h1
                      /\ UNCHANGED << currentCode, dir >>

\* a queued notification is delivered to the callback
ChangeEvent ==
    /\ Alive
    /\ watcher = "open"
    /\ pending > 0
    /\ pending' = pending - 1
    /\ \E eventType \in { "change", "rename" }, readOk \in BOOLEAN,
          analyzerOk \in BOOLEAN, observerOk \in BOOLEAN :
          WatcherCallback(eventType, readOk, analyzerOk, observerOk)
    /\ UNCHANGED << sigintHandler, codegenProcess, proc, watcher, pollArmed, enableWaitEnhancement,
                    outputOpt, phase, editor, ext, credFile, wrapRun, saveRun >>

\* stopWatching, lines 161-166, with the history h of the caller so far
stopWatching(h) ==
    /\ watcher' = "none"
    /\ pending' = 0
    /\ hist' = IF watcher # "none" THEN [h EXCEPT !.watcherCloses = @ + 1] ELSE h

\* lines 154-158: what stopRecording returns
StopReturnValue ==
    IF ExistsSync(dir, OutputFile) THEN ReadFileSync(dir, OutputFile) ELSE currentCode

\* stopRecording, lines 144-159, with the history h of the caller so far
stopRecording(h) ==
    /\ codegenProcess' = "none"
    /\ stopWatching([h EXCEPT !.stops = @ + 1,
                              !.kills = IF codegenProcess # "none" THEN @ + 1 ELSE @,
                              !.stopResult = << StopReturnValue >>,
                              !.stopWrites = h.writes])

\* a caller of the recorder stops the recording
StopRecording ==
    /\ Alive
    /\ phase # "idle"
    /\ hist.stops < MaxStops
    /\ stopRecording(hist)
    /\ UNCHANGED << sigintHandler, proc, pollArmed, currentCode, enableWaitEnhancement,
                    outputOpt, dir, phase, editor, ext, credFile, wrapRun, saveRun >>

\* saveCodeToFile, lines 172-177: the buffer goes to the file
saveCodeToFile(filename) == WriteFileSync(dir, filename, currentCode)

\* the SIGINT handler of the record command, index.js 42-52.  process.exit ends
\* the process with its timers; the 'close' of the killed codegen process is
\* never handled.
Sigint ==
    /\ Alive
    /\ sigintHandler
    /\ stopRecording([hist EXCEPT !.sigints = @ + 1, !.exitCode = << 0 >>])
    /\ LET finalCode == StopReturnValue
       IN  dir' = IF finalCode # << >> /\ outputOpt # << >>
                    THEN saveCodeToFile(outputOpt[1])
                    ELSE dir
    /\ phase' = "exited"
    /\ pollArmed' = FALSE
    /\ UNCHANGED << sigintHandler, proc, currentCode, enableWaitEnhancement, outputOpt,
                    editor, ext, credFile, wrapRun, saveRun >>

\* the 'error' handler of the codegen process, lines 61-63
CodegenError ==
    /\ Alive
    /\ proc = "launchFailed"
    /\ proc' = "failed"
    /\ hist' = [hist EXCEPT !.errorReported = TRUE]
    /\ UNCHANGED << sigintHandler, codegenProcess, watcher, pollArmed, pending, currentCode,
                    enableWaitEnhancement, outputOpt, dir, phase, editor, ext,
                    credFile, wrapRun, saveRun >>

\* line 185: nothing to save
NoCodeToSave(code) == code = << >> \/ Trim(code) = << >>

\* the 'close' handler of the codegen process, lines 65-68, with
\* promptForFilename up to its rl.question (lines 184-197).  The process
\* closes when it ends by itself, when it is killed, and after a failed launch.
CodegenClose ==
    /\ Alive
    /\ proc \in { "running", "failed" }
    /\ proc' = "closed"
    /\ stopWatching([hist EXCEPT !.closeHandled = TRUE,
                                 !.prompts = IF NoCodeToSave(currentCode) THEN @ ELSE @ + 1])
    /\ phase' = IF NoCodeToSave(currentCode) THEN "noCode" ELSE "prompt"
    /\ UNCHANGED << sigintHandler, codegenProcess, pollArmed, currentCode, enableWaitEnhancement,
                    outputOpt, dir, editor, ext, credFile, wrapRun, saveRun >>

-----------------------------------------------------------------------------
(* The post-recording pipeline: prompt, save, edit, extend.                *)

\* what the user types at the filename prompt: nothing, "x", "x.jsx"
Answers == { << >>, << "x" >>, << "x" >> \o JsExt \o << "x" >> }

\* line 243
Editors == << "nano", "vim", "vi" >>

\* tryTerminalEditor, lines 248-258, on the chain e: index counts from 1
tryTerminalEditor(e, index) ==
    IF index > Len(Editors)
      THEN [e EXCEPT !.state = "exhausted"]
      ELSE [e EXCEPT !.index = index, !.state = "spawned",
                     !.tried = Append(@, Editors[index])]

\* line 266: the exit code that lets the pipeline go on
EditorCloseOkMut(code) == TRUE

EditorCloseOk(code) == code = 0

\* line 358: the frames of the loading indicator
NumFrames == 10

\* one statement of extendScriptWithAPI that touches the indicator or prints
\* the result, on the run e
ExtStatement(e, st) ==
    CASE st = "showLoadingIndicator" ->
           [e EXCEPT !.handle = TRUE, !.timer = TRUE, !.timerStarts = @ + 1,
                     !.frame = 0]
      [] st = "clearInterval" -> [e EXCEPT !.timer = FALSE, !.frame = 0]
      [] st = "print" -> [e EXCEPT !.messages = @ + 1,
                                   !.printedWithTimer = @ \/ e.timer]

RECURSIVE ExtRun(_, _)
\* statements in program order
ExtRun(e, sts) ==
    IF sts = << >> THEN e ELSE ExtRun(ExtStatement(e, Head(sts)), Tail(sts))

\* the catch of lines 345-354
CatchStatementsMut(handle) == << "print" >>

CatchStatements(handle) ==
    (IF handle THEN << "clearInterval" >> ELSE << >>) \o << "print" >>

\* lines 335-343, after the API call returned: the write of line 340 either
\* succeeds or throws into the catch
SuccessStatements(writeOk) ==
    << "clearInterval" >> \o (IF writeOk THEN << "print" >> ELSE CatchStatements(TRUE))

\* the run e ends in the catch, with the event that threw
ExtCatch(e, event, message) ==
    ExtRun([e EXCEPT !.pc = "done", !.event = event, !.result = "failed",
                     !.error = << message >>],
           CatchStatements(e.handle))

\* https.request takes the two headers of lines 378-379 only when defined
Usable(credentials) == HasField(credentials, "email") /\ HasField(credentials, "token")

\* lines 326-333 of extendScriptWithAPI, once the credentials are there: read the
\* file, start the indicator, call the API.  Credentials that parsed but carry
\* no email and token make https.request throw inside callExtendAPI's promise.
ReadAndRequest(e, readOk) ==
    IF ~readOk \/ ~ExistsSync(dir, e.path)
      THEN ExtCatch(e, "readError", << "ENOENT" >>)
    ELSE IF ~Usable(e.creds[1])
      THEN ExtCatch(ExtStatement(e, "showLoadingIndicator"), "credError",
                    << "ERR_HTTP_INVALID_HEADER_VALUE" >>)
    ELSE [ExtStatement(e, "showLoadingIndicator") EXCEPT !.pc = "request"]

\* lines 276-280 of getCredentials: << >> when the file is absent, cannot be
\* read or does not parse, << the parsed object >> otherwise
CredentialsFromFile(credReadOk) ==
    IF credFile = << >> \/ ~credReadOk THEN << >> ELSE JsonParse(credFile[1])

\* extendScriptWithAPI, lines 317-333, with getCredentials (lines 275-286) up
\* to the first suspension: the credential prompt or the request in flight
ExtendStart(filePath, credReadOk, readOk) ==
    LET e0 == [ExtInit EXCEPT !.path = filePath, !.pre = FileOpt(dir, filePath),
                              !.credAtStart = credFile,
                              !.credReadFailed = credFile # << >> /\ ~credReadOk]
        stored == CredentialsFromFile(credReadOk)
    IN  /\ ext' = IF stored # << >>
                    THEN ReadAndRequest([e0 EXCEPT !.creds = stored], readOk)
                    ELSE [e0 EXCEPT !.pc = "credPrompt", !.credPrompts = @ + 1]
        /\ hist' = [hist EXCEPT !.extStarts = @ + 1]
        /\ phase' = IF ext'.pc = "done" THEN "end" ELSE "extend"

\* the handler of an editor's 'close', lines 265-272
EditorCloseHandler(code, credReadOk, readOk) ==
    IF EditorCloseOk(code)
      THEN ExtendStart(editor.filePath, credReadOk, readOk)
      ELSE /\ phase' = IF phase = "edit" /\ editor'.state # "spawned" THEN "end" ELSE phase
           /\ UNCHANGED << ext, hist >>

\* the answer to the filename prompt arrives: lines 197-218, with
\* saveCodeToUniqueFile and openEditorInTerminal
PromptAnswer ==
    /\ phase = "prompt"
    /\ \E answer \in Answers :
          LET finalPath == UniquePath(dir, PromptedName(answer))
          IN  /\ dir' = WriteFileSync(dir, finalPath, currentCode)
              /\ hist' = [hist EXCEPT !.saved = << finalPath >>]
              /\ editor' = tryTerminalEditor([editor EXCEPT !.filePath = finalPath], 1)
    /\ phase' = "edit"
    /\ UNCHANGED << sigintHandler, codegenProcess, proc, watcher, pollArmed, pending, currentCode,
                    enableWaitEnhancement, outputOpt, ext, credFile, wrapRun, saveRun >>

\* the 'error' handler of an editor that failed to launch, lines 260-263
EditorError ==
    /\ editor.state = "spawned"
    /\ editor' = tryTerminalEditor([editor EXCEPT !.errors = @ + 1,
                                                  !.failedCloses = @ + 1],
                                   editor.index + 1)
    /\ phase' = IF editor'.state = "exhausted" THEN "end" ELSE phase
    /\ UNCHANGED << sigintHandler, codegenProcess, proc, watcher, pollArmed, pending, currentCode,
                    enableWaitEnhancement, outputOpt, dir, ext, credFile, hist,
                    wrapRun, saveRun >>

\* the 'close' event that follows the 'error' of a failed launch: node reports
\* the negative errno of the launch as the exit code
EditorFailedClose ==
    /\ editor.failedCloses > 0
    /\ editor' = [editor EXCEPT !.failedCloses = @ - 1]
    /\ \E credReadOk \in BOOLEAN, readOk \in BOOLEAN :
          EditorCloseHandler(-2, credReadOk, readOk)
    /\ UNCHANGED << sigintHandler, codegenProcess, proc, watcher, pollArmed, pending, currentCode,
                    enableWaitEnhancement, outputOpt, dir, credFile, wrapRun, saveRun >>

\* the 'close' event of an editor that ran
EditorClose ==
    /\ editor.state = "spawned"
    /\ \E code \in { 0, 1 }, credReadOk \in BOOLEAN, readOk \in BOOLEAN :
          /\ editor' = [editor EXCEPT !.state = "closed", !.exitCode = << code >>]
          /\ EditorCloseHandler(code, credReadOk, readOk)
    /\ UNCHANGED << sigintHandler, codegenProcess, proc, watcher, pollArmed, pending, currentCode,
                    enableWaitEnhancement, outputOpt, dir, credFile, wrapRun, saveRun >>

-----------------------------------------------------------------------------
(* The extension request (callExtendAPI, lines 367-415) and its outcome.   *)

\* line 395
IsSuccessStatusMut(status) == status >= 200

IsSuccessStatus(status) == status >= 200 /\ status < 300

Statuses == { 199, 200, 299, 300, 500 }

\* response bodies: three objects, an empty object, a plain text, and an
\* object cut short
BodyOf(obj) ==
    << "{" >>
    \o Join([i \in 1..Len(obj) |->
               << Quote >> \o obj[i].key \o << Quote, ":", Quote >> \o obj[i].value
               \o << Quote >>],
            << "," >>)
    \o << "}" >>

BodyExtended == BodyOf(<< [key |-> << "extendedScript" >>, value |-> << "X" >>] >>)

Bodies ==
    { BodyExtended,
      BodyOf(<< [key |-> << "script" >>, value |-> << "S" >>] >>),
      BodyOf(<< [key |-> << "script" >>, value |-> << "S" >>],
                [key |-> << "extendedScript" >>, value |-> << "X" >>] >>),
      BodyOf(<< >>),
      << "plain", " ", "text" >>,
      SubSeq(BodyExtended, 1, Len(BodyExtended) - 1) }

\* lines 396-401: decode with fallback
DecodeBodyMut(data) ==
    LET parsed == JsonParse(data)
    IN  IF parsed = << >> THEN data
        ELSE LET response == parsed[1]
             IN  IF Field(response, "script") # << >> THEN Field(response, "script")
                 ELSE IF Field(response, "extendedScript") # << >>
                   THEN Field(response, "extendedScript")
                 ELSE data

DecodeBody(data) ==
    LET parsed == JsonParse(data)
    IN  IF parsed = << >> THEN data
        ELSE LET response == parsed[1]
             IN  IF Field(response, "extendedScript") # << >>
                   THEN Field(response, "extendedScript")
                 ELSE IF Field(response, "script") # << >> THEN Field(response, "script")
                 ELSE data

\* line 403: the message of the rejection
StatusError(status, data) ==
    << "API", " ", "returned", " ", "status", " " >> \o NumStr(status)
    \o << ":", " " >> \o data

\* what the user types at the two credential prompts
Emails == { << "u@x.io" >>, << "v@y.io" >> }
Tokens == { << "k1" >> }

\* lines 304-309: the credential file after promptForCredentials tried to save
PersistCredentialsMut(credentials, saved) == credFile

PersistCredentials(credentials, saved) ==
    IF saved THEN << JsonStringify(credentials) >> ELSE credFile

\* the answers to the two credential prompts arrive (lines 297-312), and
\* extendScriptWithAPI goes on from line 326
ExtCredentialsAnswer ==
    /\ ext.pc = "credPrompt"
    /\ \E email \in Emails, token \in Tokens, saved \in BOOLEAN, readOk \in BOOLEAN :
          LET credentials == Credentials(email, token)
          IN  /\ credFile' = PersistCredentials(credentials, saved)
              /\ ext' = ReadAndRequest([ext EXCEPT !.creds = << credentials >>,
                                                   !.credWarned = ~saved],
                                       readOk)
    /\ phase' = IF ext'.pc = "done" THEN "end" ELSE phase
    /\ UNCHANGED << sigintHandler, codegenProcess, proc, watcher, pollArmed, pending,
                    currentCode, enableWaitEnhancement, outputOpt, dir, editor, hist,
                    wrapRun, saveRun >>

\* the indicator's interval fires (lines 361-364) while the request is in flight
LoadingTick ==
    /\ ext.timer
    /\ ext' = [ext EXCEPT !.frame = (@ + 1) % NumFrames]
    /\ UNCHANGED << sigintHandler, codegenProcess, proc, watcher, pollArmed, pending,
                    currentCode, enableWaitEnhancement, outputOpt, dir, phase, editor,
                    credFile, hist, wrapRun, saveRun >>

\* the response has ended (lines 394-405), and extendScriptWithAPI goes on from
\* line 336 or from its catch.  A write that fails leaves the file as it was or,
\* when it fails after the file was opened for writing, empty.
ExtResponse ==
    /\ ext.pc = "request"
    /\ \E status \in Statuses, body \in Bodies,
          written \in { "ok", "failedUntouched", "failedTruncated" } :
          LET e == [ext EXCEPT !.status = status, !.body = << body >>]
          IN  IF IsSuccessStatus(status)
                THEN /\ dir' = CASE written = "ok" ->
                                      WriteFileSync(dir, ext.path, DecodeBody(body))
                                 [] written = "failedTruncated" ->
                                      WriteFileSync(dir, ext.path, << >>)
                                 [] OTHER -> dir
                     /\ ext' = ExtRun([e EXCEPT !.pc = "done",
                                                !.event = IF written = "ok" THEN "response"
                                                          ELSE "writeError",
                                                !.result = IF written = "ok" THEN "success"
                                                           ELSE "failed",
                                                !.error = IF written = "ok" THEN << >>
                                                          ELSE << << "ENOSPC" >> >>],
                                      SuccessStatements(written = "ok"))
                ELSE /\ dir' = dir
                     /\ ext' = ExtCatch(e, "response", StatusError(status, body))
    /\ phase' = "end"
    /\ UNCHANGED << sigintHandler, codegenProcess, proc, watcher, pollArmed, pending,
                    currentCode, enableWaitEnhancement, outputOpt, editor, credFile, hist,
                    wrapRun, saveRun >>

\* the request emits 'error' (lines 408-410): the catch of lines 345-354
ExtTransportError ==
    /\ ext.pc = "request"
    /\ ext' = ExtCatch(ext, "transportError", << "ECONNREFUSED" >>)
    /\ phase' = "end"
    /\ UNCHANGED << sigintHandler, codegenProcess, proc, watcher, pollArmed, pending,
                    currentCode, enableWaitEnhancement, outputOpt, dir, editor, credFile,
                    hist, wrapRun, saveRun >>

\* the session of the record command, from the constructor to the filename prompt
Next ==
    \/ StartRecording
    \/ PollTimer
    \/ SettleTimer
    \/ ArtifactWrite
    \/ ChangeEvent
    \/ StopRecording
    \/ CodegenError
    \/ CodegenClose
    \/ Sigint

Spec == Init /\ [][Next]_vars

\* The session under fair timers: node runs a timer's callback once the timer
\* is due and the event loop is free, and every handler of the session returns.
\* A poll that is armed therefore fires.
SpecFair == Init /\ [][Next]_vars /\ WF_vars(PollTimer)

\* The pipeline starts where the session ends: the close handler has opened the
\* filename prompt, over a buffer that one change event produced from the
\* artifact file.
PipelineInit ==
    /\ enableWaitEnhancement \in BOOLEAN
    /\ credFile \in CredFiles
    /\ outputOpt = << >>
    /\ \E raw \in { RawPlain, RawTest },
          others \in SUBSET { [name |-> PromptedName(a), content |-> OldContent] :
                              a \in Answers } :
          /\ currentCode = TransformCode(raw, enableWaitEnhancement)
          /\ dir = others \cup { [name |-> OutputFile, content |-> raw] }
          /\ hist = [HistInit EXCEPT !.writes = 2, !.reads = 1, !.lastRead = << raw >>,
                                     !.transforms = 1, !.observerCalls = 1,
                                     !.lastObserved = << currentCode >>,
                                     !.analyzerCalls =
                                         IF enableWaitEnhancement THEN 2 ELSE 0,
                                     !.attaches = 1,
                                     !.closeHandled = TRUE, !.watcherCloses = 1,
                                     !.prompts = 1]
    /\ codegenProcess = "handle"
    /\ proc = "closed"
    /\ watcher = "none"
    /\ pollArmed = FALSE
    /\ pending = 0
    /\ sigintHandler = TRUE
    /\ phase = "prompt"
    /\ editor = EditorInit
    /\ ext = ExtInit
    /\ wrapRun = WrapIdle
    /\ saveRun = SaveIdle

\* What PipelineInit takes from the session: whenever the session (Spec) has
\* opened the filename prompt, the process is closed, no watcher is attached,
\* no notification is queued and no existence poll is armed.
PipelineStartsQuiet ==
    phase = "prompt"
      => (proc = "closed" /\ watcher = "none" /\ pending = 0 /\ ~pollArmed)

NextPipeline ==
    \/ PromptAnswer
    \/ EditorError
    \/ EditorFailedClose
    \/ EditorClose
    \/ ExtCredentialsAnswer
    \/ ExtResponse
    \/ ExtTransportError

SpecPipeline == PipelineInit /\ [][NextPipeline]_vars

\* One run of extendScriptWithAPI, with the ticks of its loading indicator.  It
\* starts where the pipeline has saved the buffer under the default name into a
\* directory that holds the artifact file only, and has launched the first
\* editor: a state of SpecPipeline.
ExtendInit ==
    /\ enableWaitEnhancement = FALSE
    /\ credFile \in CredFiles
    /\ outputOpt = << >>
    /\ currentCode = TransformCode(RawPlain, enableWaitEnhancement)
    /\ LET dir0 == { [name |-> OutputFile, content |-> RawPlain] }
           finalPath == UniquePath(dir0, PromptedName(<< >>))
       IN  /\ dir = WriteFileSync(dir0, finalPath, currentCode)
           /\ editor = tryTerminalEditor([EditorInit EXCEPT !.filePath = finalPath], 1)
           /\ hist = [HistInit EXCEPT !.writes = 2, !.reads = 1,
                                      !.lastRead = << RawPlain >>,
                                      !.transforms = 1, !.observerCalls = 1,
                                      !.lastObserved = << currentCode >>,
                                      !.attaches = 1,
                                      !.closeHandled = TRUE, !.watcherCloses = 1,
                                      !.prompts = 1, !.saved = << finalPath >>]
    /\ codegenProcess = "handle"
    /\ proc = "closed"
    /\ watcher = "none"
    /\ pollArmed = FALSE
    /\ pending = 0
    /\ sigintHandler = TRUE
    /\ phase = "edit"
    /\ ext = ExtInit
    /\ wrapRun = WrapIdle
    /\ saveRun = SaveIdle

NextExtend ==
    \/ EditorClose
    \/ ExtCredentialsAnswer
    \/ LoadingTick
    \/ ExtResponse
    \/ ExtTransportError

SpecExtend == ExtendInit /\ [][NextExtend]_vars

-----------------------------------------------------------------------------
(* wrapInTestFunction as a function of its input.                          *)

\* the lines an input is made of
WrapLines ==
    { << >>,
      << " " >>,
      << "import", " ", "x" >>,
      << " ", "const", " ", "x" >>,
      << "require", "(", "x", ")" >>,
      << "browser", " ", "=", " ", "x" >>,
      << "x", ";" >>,
      << " ", "x", ";" >>,
      << "test", "(", "x", ")" >>,
      << "describe", "(", "x", ")" >> }

WrapInputs ==
    { Join(ls, NL) : ls \in UNION { [1..n -> WrapLines] : n \in 1..MaxLines } }

\* a session that is not running, for the specifications of one function
SessionRest ==
    /\ codegenProcess = "none"
    /\ proc = "unspawned"
    /\ watcher = "none"
    /\ pollArmed = FALSE
    /\ pending = 0
    /\ enableWaitEnhancement = TRUE
    /\ outputOpt = << >>
    /\ phase = "idle"
    /\ editor = EditorInit
    /\ ext = ExtInit
    /\ credFile = << >>
    /\ sigintHandler = FALSE
    /\ hist = HistInit

WrapInit ==
    /\ SessionRest
    /\ currentCode = << >>
    /\ dir = {}
    /\ saveRun = SaveIdle
    /\ \E c \in WrapInputs : wrapRun = [WrapIdle EXCEPT !.pc = "input", !.in = c]

\* wrapInTestFunction is applied to the input
WrapOnce ==
    /\ wrapRun.pc = "input"
    /\ wrapRun' = [wrapRun EXCEPT !.pc = "wrapped", !.out = wrapInTestFunction(wrapRun.in)]
    /\ UNCHANGED << sessionVars, saveRun >>

\* wrapInTestFunction is applied to its own output
WrapAgain ==
    /\ wrapRun.pc = "wrapped"
    /\ wrapRun' = [wrapRun EXCEPT !.pc = "rewrapped",
                                  !.out2 = wrapInTestFunction(wrapRun.out)]
    /\ UNCHANGED << sessionVars, saveRun >>

NextWrap == WrapOnce \/ WrapAgain

SpecWrap == WrapInit /\ [][NextWrap]_vars

-----------------------------------------------------------------------------
(* saveCodeToUniqueFile as a function of the file name and the directory.  *)

\* the names promptForFilename passes on
SaveNames == { PromptedName(a) : a \in Answers }

\* filename without its extension
Stem(filename) == SubSeq(filename, 1, Len(filename) - Len(JsExt))

Numbered(base, k) == base \o << "-" >> \o NumStr(k) \o JsExt

\* names that may be taken already: each name, and its numbered copies
TakenNames ==
    SaveNames
      \cup { Numbered(Stem(n), k) : n \in SaveNames \ { PromptedName(<< >>) },
                                    k \in 1..MaxExisting }
      \cup { Numbered(BaseName(n), k) : n \in SaveNames \ { PromptedName(<< >>) },
                                        k \in 1..MaxExisting }

SaveInit ==
    /\ SessionRest
    /\ currentCode = TransformCode(RawPlain, TRUE)
    /\ wrapRun = WrapIdle
    /\ \E taken \in SUBSET TakenNames :
          dir = { [name |-> n, content |-> OldContent] : n \in taken }
    /\ \E n \in SaveNames :
          saveRun = [SaveIdle EXCEPT !.pc = "input", !.name = n, !.before = dir]

\* saveCodeToUniqueFile, lines 221-236
SaveUnique ==
    /\ saveRun.pc = "input"
    /\ LET fullPath == UniquePath(dir, saveRun.name)
       IN  /\ dir' = WriteFileSync(dir, fullPath, currentCode)
           /\ saveRun' = [saveRun EXCEPT !.pc = "saved", !.ret = fullPath]
    /\ UNCHANGED << sigintHandler, codegenProcess, proc, watcher, pollArmed, pending, currentCode,
                    enableWaitEnhancement, outputOpt, phase, editor, ext, credFile,
                    hist, wrapRun >>

NextSave == SaveUnique

SpecSave == SaveInit /\ [][NextSave]_vars

-----------------------------------------------------------------------------
(* The claims.                                                             *)

\* C1: a change notification whose read returns the content the previous read
\* returned causes no transformation, no output and no observer call.
C1_IdenticalReadsFireOnce ==
    [][ (/\ hist'.reads = hist.reads + 1
         /\ hist.lastRead # << >>
         /\ hist'.lastRead = hist.lastRead)
        => (/\ hist'.transforms = hist.transforms
            /\ hist'.observerCalls = hist.observerCalls
            /\ currentCode' = currentCode) ]_vars

\* the run of extendScriptWithAPI ended in a failure that its inputs caused: a
\* status outside 200..299, a transport error, unusable credentials, a failed read
ExtFailedByInput ==
    \/ ext.event \in { "transportError", "credError", "readError" }
    \/ ext.event = "response" /\ ~(ext.status >= 200 /\ ext.status <= 299)

\* C2: when a run of extendScriptWithAPI ends in failure, the target file holds
\* what it held before the call.
C2_FailureLeavesFile ==
    (ext.pc = "done" /\ ExtFailedByInput) => FileOpt(dir, ext.path) = ext.pre

C2_Witness ==
    /\ ext.pc = "done"
    /\ ext.event = "response"
    /\ ext.status = 500
    /\ ext.pre # << >>
    /\ FileOpt(dir, ext.path) = ext.pre

RECURSIVE FirstFreeName(_, _, _)
\* the first name of x.js, x-1.js, x-2.js, ... that is not in directory d
FirstFreeName(d, filename, k) ==
    LET candidate == IF k = 0 THEN filename ELSE Numbered(Stem(filename), k)
    IN  IF ExistsSync(d, candidate) THEN FirstFreeName(d, filename, k + 1)
        ELSE candidate

\* C3: saveCodeToUniqueFile(x.js) writes to the first free name of x.js,
\* x-1.js, x-2.js, ..., returns it, and leaves every file that was there as it was.
C3_FirstFreeName ==
    saveRun.pc = "saved"
      => /\ saveRun.ret = FirstFreeName(saveRun.before, saveRun.name, 0)
         /\ ReadFileSync(dir, saveRun.ret) = currentCode
         /\ \A f \in saveRun.before : f \in dir

\* C4: once the 'close' of the codegen process has been handled, no change
\* event is processed: the buffer is not mutated and handleCodeUpdate does not run.
C4_NoChangeAfterClose ==
    [][ hist.closeHandled
        => (currentCode' = currentCode /\ hist'.transforms = hist.transforms) ]_vars

\* C5: after the 'close' was handled or stopRecording was called, the process
\* handle and the watcher handle are none and no existence poll is armed.
C5_ReleasedAfterTerminal ==
    (hist.closeHandled \/ hist.stops > 0)
      => (codegenProcess = "none" /\ watcher = "none" /\ ~pollArmed)

\* C6: after the 'error' of the codegen process was reported, no existence poll
\* is running, no watcher is attached and no change event was or is processed.
C6_InertAfterLaunchFailure ==
    hist.errorReported => (~pollArmed /\ watcher = "none" /\ hist.reads = 0)

\* the lines of a wrapped output above the test header, and those of the test body
OutLines(out) == Split(out, "\n")
HeaderAt(out) ==
    CHOOSE j \in 1..Len(OutLines(out)) :
        /\ OutLines(out)[j] = TestHeader
        /\ \A i \in 1..(j - 1) : OutLines(out)[i] # TestHeader

\* C7: for an input without a marker, every leading import line and every
\* leading setup line is in the output above the test header, and the lines
\* that remain are, in order and indented, the test body.
C7_NoLineLost ==
    (wrapRun.pc = "wrapped" /\ ~HasTestMarker(wrapRun.in))
      => LET lines == Split(wrapRun.in, "\n")
             k == ScanHeader(lines).testStartIndex
             out == OutLines(wrapRun.out)
             h == HeaderAt(wrapRun.out)
         IN  /\ \A i \in 1..k :
                   (IsImportLine(Trim(lines[i])) \/ IsSetupLine(Trim(lines[i])))
                     => \E j \in 1..(h - 1) : out[j] = lines[i]
             /\ k < Len(lines)
                  => SubSeq(out, h + 1, Len(out) - 1)
                       = [ i \in 1..(Len(lines) - k) |-> IndentLine(lines[k + i]) ]

\* C8: wrapping a wrapped code again changes nothing, and a code that holds a
\* marker is returned as it is.
C8_WrapIdempotent ==
    wrapRun.pc = "rewrapped"
      => /\ wrapRun.out2 = wrapRun.out
         /\ HasTestMarker(wrapRun.in) => wrapRun.out = wrapRun.in

C8_Witness ==
    /\ wrapRun.pc = "rewrapped"
    /\ ~HasTestMarker(wrapRun.in)
    /\ wrapRun.out # wrapRun.in
    /\ ScanHeader(Split(wrapRun.in, "\n")).imports # << >>
    /\ wrapRun.out2 = wrapRun.out

IsPrefix(s, t) == Len(s) <= Len(t) /\ SubSeq(t, 1, Len(s)) = s

\* C9: the extension starts at most once, only after the file was saved and an
\* editor closed with exit code 0; the editors are tried in the order nano,
\* vim, vi, each after the launch error of the one before; no extension starts
\* after a nonzero close or when no editor could be launched.
C9_PipelineOrder ==
    /\ hist.extStarts <= 1
    /\ hist.extStarts = 1
         => /\ hist.saved # << >>
            /\ editor.state = "closed"
            /\ editor.exitCode = << 0 >>
            /\ editor.filePath = hist.saved[1]
    /\ ext.pc # "idle" => hist.extStarts = 1
    /\ (editor.exitCode # << >> /\ editor.exitCode # << 0 >>) => hist.extStarts = 0
    /\ editor.state = "exhausted" => (hist.extStarts = 0 /\ editor.tried = Editors)
    /\ IsPrefix(editor.tried, Editors)
    /\ editor.tried # << >>
         => /\ hist.saved # << >>
            /\ hist.prompts = 1
            /\ editor.errors = IF editor.state = "exhausted" THEN Len(editor.tried)
                               ELSE Len(editor.tried) - 1
    /\ (editor.tried = << >>) = (phase = "prompt")

C9_Witness ==
    /\ hist.extStarts = 1
    /\ editor.tried = << "nano", "vim" >>
    /\ editor.exitCode = << 0 >>
    /\ ext.pc = "request"

\* the buffer is stale: the file holds something else than what was transformed
BufferStale ==
    /\ ExistsSync(dir, OutputFile)
    /\ currentCode # TransformCode(ReadFileSync(dir, OutputFile), enableWaitEnhancement)

\* C10: stopRecording returns the buffer, and the content of the artifact file
\* only when the buffer is stale.
C10_StopReturnsBuffer ==
    [][ hist'.stops = hist.stops + 1
        => hist'.stopResult =
             << IF BufferStale THEN ReadFileSync(dir, OutputFile) ELSE currentCode >> ]_vars

\* C11: stopRecording is idempotent.  A call of stopRecording that is not the
\* first one kills nothing, closes nothing, leaves the buffer and both handles
\* as they are and, when the artifact file was not written since the call
\* before, returns what that call returned; over the whole session the
\* subprocess is killed at most once and the watcher closed at most once.
C11_StopIdempotent ==
    [][ /\ hist'.kills <= 1
        /\ hist'.watcherCloses <= 1
        /\ (hist.stops >= 1 /\ hist'.stops = hist.stops + 1)
             => /\ hist'.kills = hist.kills
                /\ hist'.watcherCloses = hist.watcherCloses
                /\ currentCode' = currentCode
                /\ codegenProcess' = codegenProcess
                /\ watcher' = watcher
                /\ (hist.writes = hist.stopWrites
                      => hist'.stopResult = hist.stopResult) ]_vars

\* C12: an interrupt with an output destination configured runs the stop
\* sequence, which kills the subprocess if there is one and closes the watcher
\* if there is one, opens no prompt and exits with code 0; when the stop
\* sequence returned code, the output destination then holds exactly that code.
C12_InterruptFlushes ==
    [][ (hist'.sigints = hist.sigints + 1 /\ outputOpt # << >>)
          => /\ codegenProcess' = "none"
             /\ watcher' = "none"
             /\ hist'.kills = hist.kills + (IF codegenProcess # "none" THEN 1 ELSE 0)
             /\ hist'.watcherCloses
                   = hist.watcherCloses + (IF watcher # "none" THEN 1 ELSE 0)
             /\ hist'.prompts = hist.prompts
             /\ hist'.exitCode = << 0 >>
             /\ phase' = "exited"
             /\ (hist'.stopResult # << << >> >>
                   => FileOpt(dir', outputOpt[1]) = hist'.stopResult) ]_vars

\* C13: a change notification whose read of the artifact file fails is a missed
\* event and nothing more: the buffer and the recordings directory stay as they
\* are, no transformation runs, no analyzer and no observer is called, and the
\* watcher stays attached; a later notification whose read succeeds with
\* content that differs from the buffer is transformed as usual.
C13_FailedReadIsMissedEvent ==
    [][ /\ hist'.failedReads = hist.failedReads + 1
             => /\ currentCode' = currentCode
                /\ dir' = dir
                /\ hist'.transforms = hist.transforms
                /\ hist'.analyzerCalls = hist.analyzerCalls
                /\ hist'.observerCalls = hist.observerCalls
                /\ watcher = "open"
                /\ watcher' = "open"
        /\ (/\ hist.failedReads > 0
            /\ hist'.reads = hist.reads + 1
            /\ hist'.lastRead # << currentCode >>)
             => hist'.transforms = hist.transforms + 1 ]_vars

\* a read failed, and afterwards a change was read, transformed and observed
C13_Witness ==
    /\ hist.failedReads > 0
    /\ hist.recovered
    /\ watcher = "open"
    /\ currentCode = TransformCode(hist.lastRead[1], enableWaitEnhancement)

\* the result the fallback rule names for a response body
DecodedResult(data) ==
    LET parsed == JsonParse(data)
    IN  IF parsed = << >> THEN data
        ELSE IF HasField(parsed[1], "extendedScript")
          THEN Field(parsed[1], "extendedScript")
        ELSE IF HasField(parsed[1], "script") THEN Field(parsed[1], "script")
        ELSE data

C15_IndicatorCancelled ==
    /\ ext.timerStarts <= 1
    /\ ext.timer => ext.pc = "request"
    /\ ext.pc # "done" => ext.messages = 0
    /\ ext.pc = "done"
         => /\ ~ext.timer
            /\ ~ENABLED LoadingTick
            /\ ext.messages = 1
            /\ ~ext.printedWithTimer

\* the final write failed after the indicator had run
C15_Witness ==
    /\ ext.pc = "done"
    /\ ext.event = "writeError"
    /\ ext.timerStarts = 1
    /\ ~ext.timer
    /\ ext.messages = 1

\* the credential file of the run's start was there, could be read and parsed
CredFileServed ==
    /\ ext.credAtStart # << >>
    /\ ~ext.credReadFailed
    /\ JsonParse(ext.credAtStart[1]) # << >>

\* C16: getCredentials always returns credentials.  When the credential file is
\* there, readable and parses, they are the parsed file, no prompt is opened
\* and the file stays as it is.  Otherwise the prompt is opened once, the
\* prompted pair is returned, and the file holds the pair as soon as it is
\* returned, unless the write failed: then the warning was printed and the
\* file stays as it was.
C16_CredentialsWriteThrough ==
    /\ ext.pc \in { "request", "done" } => ext.creds # << >>
    /\ (ext.pc # "idle" /\ CredFileServed)
         => /\ ext.credPrompts = 0
            /\ ~ext.credWarned
            /\ credFile = ext.credAtStart
            /\ ext.creds = JsonParse(ext.credAtStart[1])
    /\ (ext.pc # "idle" /\ ~CredFileServed)
         => /\ ext.credPrompts = 1
            /\ ext.creds # << >>
                 => /\ \E email \in Emails, token \in Tokens :
                          ext.creds = << Credentials(email, token) >>
                    /\ IF ext.credWarned
                         THEN credFile = ext.credAtStart
                         ELSE credFile # << >> /\ JsonParse(credFile[1]) = ext.creds

\* a malformed file led to the prompt, and the pair was saved and returned
C16_Witness ==
    /\ ext.pc = "request"
    /\ ext.credAtStart # << >>
    /\ JsonParse(ext.credAtStart[1]) = << >>
    /\ ext.credPrompts = 1
    /\ ~ext.credWarned
    /\ JsonParse(credFile[1]) = ext.creds

\* C17: with enhancement disabled, every change event that is transformed puts
\* wrapInTestFunction of the code just read into the buffer and hands that same
\* value to the observer, and no analyzer function is ever called.
C17_DisabledEnhancementWrapsOnly ==
    [][ ~enableWaitEnhancement
          => /\ hist'.analyzerCalls = 0
             /\ hist'.transforms = hist.transforms + 1
                  => /\ currentCode' = wrapInTestFunction(hist'.lastRead[1])
                     /\ hist'.observerCalls = hist.observerCalls + 1
                     /\ hist'.lastObserved
                          = << wrapInTestFunction(hist'.lastRead[1]) >> ]_vars

C17_Witness ==
    /\ ~enableWaitEnhancement
    /\ hist.transforms >= 1
    /\ hist.lastRead = << RawPlain >>
    /\ currentCode = wrapInTestFunction(RawPlain)
    /\ currentCode # RawPlain
    /\ hist.lastObserved = << currentCode >>
    /\ hist.analyzerCalls = 0

\* C18: the existence poll is armed by a check that did not find the artifact
\* file and by nothing else, and it stays armed until a check finds the file;
\* the check that finds the file attaches the one watcher of the session and
\* leaves no poll armed, and afterwards no poll is armed again and no second
\* watcher is attached.  Under fair timers, once the file exists while the
\* session is recording, a watcher is attached (unless the process exits
\* first).
C18_PollUntilFound ==
    /\ [][ /\ hist'.attaches <= 1
           /\ (~pollArmed /\ pollArmed')
                => (phase = "idle" /\ ~ExistsSync(dir', OutputFile))
           /\ (pollArmed /\ ~pollArmed')
                => (hist'.attaches = hist.attaches + 1 \/ phase' = "exited")
           /\ hist'.attaches = hist.attaches + 1
                => /\ ExistsSync(dir', OutputFile)
                   /\ watcher' = "open"
                   /\ ~pollArmed'
           /\ hist.attaches >= 1 => ~pollArmed' ]_vars
    /\ (phase = "recording" /\ ExistsSync(dir, OutputFile))
         ~> (hist.attaches = 1 \/ phase = "exited")

\* the file appeared after the session had started, and the poll found it
C18_Witness ==
    /\ phase = "recording"
    /\ hist.writes >= 1
    /\ hist.attaches = 1
    /\ watcher = "open"
    /\ ~pollArmed

\* C19: when the change-notification handler has returned, the buffer is as it
\* was before, with no observer call, or it holds the transformed form of the
\* content just read and the observer was called exactly once, with that value;
\* also when the analyzer or the observer throws.
C19_BufferNeverRaw ==
    [][ (watcher = "open" /\ watcher' = "open" /\ pending' = pending - 1)
          => \/ /\ currentCode' = currentCode
                /\ hist'.observerCalls = hist.observerCalls
             \/ /\ currentCode'
                     = TransformCode(hist'.lastRead[1], enableWaitEnhancement)
                /\ hist'.observerCalls = hist.observerCalls + 1
                /\ hist'.lastObserved = << currentCode' >> ]_vars

\* the files of the recordings directory that the program writes: all but the
\* artifact file, which the codegen tool writes
ProgramFiles(d) == { f \in d : f.name # OutputFile }

\* C20: when the close handler finds the buffer empty or blank, it opens no
\* prompt, and from then on the session (short of an interrupt) opens no
\* prompt, creates or changes no file of its own in the recordings directory,
\* launches no editor and starts no extension.
C20_EmptyCloseNoEffects ==
    [][ (\/ phase = "noCode"
         \/ ~hist.closeHandled /\ hist'.closeHandled /\ NoCodeToSave(currentCode))
        /\ hist'.sigints = hist.sigints
          => /\ hist'.prompts = hist.prompts
             /\ ProgramFiles(dir') = ProgramFiles(dir)
             /\ editor' = editor
             /\ ext' = ext
             /\ hist'.extStarts = hist.extStarts
             /\ phase' = "noCode" ]_vars

=============================================================================
